---- MODULE Spec2Model ----
(***************************************************************************)
(* Model of the prodvision backend (src/backend/app.py): the login rate    *)
(* limiter, login, token issue and resolution, registration, playlist      *)
(* ingestion with genre classification, and the watch-status update.       *)
(*                                                                         *)
(* Request handlers are coroutines on one asyncio loop: a handler runs     *)
(* without interruption between two awaits, so each action below is the    *)
(* code between two suspension points (a database call takes effect in     *)
(* the action that resumes from it).                                       *)
(***************************************************************************)
EXTENDS Integers, Sequences, FiniteSets, TLC

VARIABLES
    now,             \* time.time() / datetime.utcnow(), in whole seconds
    login_attempts,  \* app.py:35, dict: client IP -> <<attempts, first_attempt>>
    users,           \* db.users, the documents in insertion order
    req,             \* the login requests in flight
    reg,             \* the register requests in flight
    videos,          \* db.videos, the documents in insertion order
    out,             \* the response sent last
    call,            \* the ingestion request that is in, and what its upstreams answer
    sweep,           \* check_unwatched_videos: when it wakes, what it notified last
    streak,          \* observation, per IP: the login attempts since its last success
    win,             \* observation, per IP: the attempts the limiter let through
    raced            \* observation: two register requests were in flight at once

vars ==
    <<now, login_attempts, users, req, reg, videos, out, call, sweep, streak, win, raced>>

-----------------------------------------------------------------------------
(* Program constants *)

RATE_LIMIT_DURATION == 60
MAX_ATTEMPTS == 5
ACCESS_TOKEN_EXPIRE_MINUTES == 30
STALE_DAYS == 14            \* app.py:600, timedelta(days=14)
SWEEP_SLEEP == 86400        \* app.py:609, asyncio.sleep(86400)

(* Bounds of the model *)

MaxTime == 61       \* the login clock stops here
MaxSlots == 2       \* login requests that can be in flight together
MaxRegs == 2        \* register requests that can be in flight together
MaxUsers == 3       \* register is not called once db.users holds this many
MaxVideos == 2      \* no ingestion takes db.videos beyond this many documents
MaxItems == 2       \* items of a playlist page
MaxDays == 15       \* the sweeper's clock stops after this many days
MaxSaveTime == 1    \* the sweeper is observed on videos saved up to this second
MaxTokenTime == 1860  \* the clock of the token service stops here
Cap == 6            \* the observation counters of hist saturate here

-----------------------------------------------------------------------------
(* Text: a string is a sequence of one-character strings *)

UpperChars == {"A", "B", "Z"}
DigitChars == {"0", "1", "9"}

LowerChar(c) ==
    CASE c = "A" -> "a"
      [] c = "B" -> "b"
      [] c = "Z" -> "z"
      [] OTHER -> c

Lower(s) == [i \in DOMAIN s |-> LowerChar(s[i])]

RECURSIVE LStrip(_)
LStrip(s) == IF s # <<>> /\ Head(s) = " " THEN LStrip(Tail(s)) ELSE s

RECURSIVE RStrip(_)
RStrip(s) ==
    IF s # <<>> /\ s[Len(s)] = " " THEN RStrip(SubSeq(s, 1, Len(s) - 1)) ELSE s

Strip(s) == RStrip(LStrip(s))

IsDigit(c) == c \in DigitChars
IsUpper(c) == c \in UpperChars

-----------------------------------------------------------------------------
(* Passwords and users *)

get_password_hash(password) == [scheme |-> "bcrypt", of |-> password]

verify_password(plain_password, hashed_password) ==
    hashed_password.scheme = "bcrypt" /\ hashed_password.of = plain_password

\* db.users.find_one({"email": email}): the first matching document, if any
FindUser(store, email) ==
    LET hits == {i \in DOMAIN store : store[i].email = email}
    IN  IF hits = {} THEN <<>>
        ELSE <<store[CHOOSE i \in hits : \A j \in hits : i <= j]>>

get_user(email) == FindUser(users, email)

-----------------------------------------------------------------------------
(* The rate limiter *)

IPs == {"10.0.0.1"}

Present(tbl, ip) == ip \in DOMAIN tbl

Put(tbl, ip, entry) ==
    [k \in DOMAIN tbl \cup {ip} |-> IF k = ip THEN entry ELSE tbl[k]]

Del(tbl, ip) == [k \in DOMAIN tbl \ {ip} |-> tbl[k]]

\* A limiter whose window ends one second early (>= for >)
check_rate_limit_early(tbl, client_ip, current_time) ==
    IF Present(tbl, client_ip)
    THEN LET attempts == tbl[client_ip][1]
             first_attempt == tbl[client_ip][2]
         IN  IF current_time - first_attempt >= RATE_LIMIT_DURATION
             THEN [pass |-> TRUE, tbl |-> Put(tbl, client_ip, <<1, current_time>>),
                   time_left |-> 0]
             ELSE IF attempts >= MAX_ATTEMPTS
                  THEN [pass |-> FALSE, tbl |-> tbl,
                        time_left |-> RATE_LIMIT_DURATION
                                        - (current_time - first_attempt)]
                  ELSE [pass |-> TRUE,
                        tbl |-> Put(tbl, client_ip, <<attempts + 1, first_attempt>>),
                        time_left |-> 0]
    ELSE [pass |-> TRUE, tbl |-> Put(tbl, client_ip, <<1, current_time>>),
          time_left |-> 0]

\* A limiter that counts the attempts it rejects too
check_rate_limit_counting(tbl, client_ip, current_time) ==
    IF Present(tbl, client_ip)
    THEN LET attempts == tbl[client_ip][1]
             first_attempt == tbl[client_ip][2]
         IN  IF current_time - first_attempt > RATE_LIMIT_DURATION
             THEN [pass |-> TRUE, tbl |-> Put(tbl, client_ip, <<1, current_time>>),
                   time_left |-> 0]
             ELSE [pass |-> attempts < MAX_ATTEMPTS,
                   tbl |-> Put(tbl, client_ip, <<attempts + 1, first_attempt>>),
                   time_left |-> 0]
    ELSE [pass |-> TRUE, tbl |-> Put(tbl, client_ip, <<1, current_time>>),
          time_left |-> 0]

\* A limiter that lets MAX_ATTEMPTS + 1 attempts through (> for >=)
check_rate_limit_lax(tbl, client_ip, current_time) ==
    IF Present(tbl, client_ip)
    THEN LET attempts == tbl[client_ip][1]
             first_attempt == tbl[client_ip][2]
         IN  IF current_time - first_attempt > RATE_LIMIT_DURATION
             THEN [pass |-> TRUE, tbl |-> Put(tbl, client_ip, <<1, current_time>>),
                   time_left |-> 0]
             ELSE IF attempts > MAX_ATTEMPTS
                  THEN [pass |-> FALSE, tbl |-> tbl,
                        time_left |-> RATE_LIMIT_DURATION
                                        - (current_time - first_attempt)]
                  ELSE [pass |-> TRUE,
                        tbl |-> Put(tbl, client_ip, <<attempts + 1, first_attempt>>),
                        time_left |-> 0]
    ELSE [pass |-> TRUE, tbl |-> Put(tbl, client_ip, <<1, current_time>>),
          time_left |-> 0]

\* check_rate_limit: whether the request passes, and the table afterwards
check_rate_limit(tbl, client_ip, current_time) ==
    IF Present(tbl, client_ip)
    THEN LET attempts == tbl[client_ip][1]
             first_attempt == tbl[client_ip][2]
         IN  IF current_time - first_attempt > RATE_LIMIT_DURATION
             THEN [pass |-> TRUE, tbl |-> Put(tbl, client_ip, <<1, current_time>>),
                   time_left |-> 0]
             ELSE IF attempts >= MAX_ATTEMPTS
                  THEN [pass |-> FALSE, tbl |-> tbl,
                        time_left |-> RATE_LIMIT_DURATION
                                        - (current_time - first_attempt)]
                  ELSE [pass |-> TRUE,
                        tbl |-> Put(tbl, client_ip, <<attempts + 1, first_attempt>>),
                        time_left |-> 0]
    ELSE [pass |-> TRUE, tbl |-> Put(tbl, client_ip, <<1, current_time>>),
          time_left |-> 0]

\* A failure that restarts the window at the time of the failure
RecordFailure_restart(tbl, client_ip, current_time) ==
    LET cur == IF Present(tbl, client_ip) THEN tbl[client_ip]
               ELSE <<0, current_time>>
    IN  Put(tbl, client_ip, <<cur[1] + 1, current_time>>)

\* login, on a wrong password: one more attempt on the entry, made if missing
RecordFailure(tbl, client_ip, current_time) ==
    LET cur == IF Present(tbl, client_ip) THEN tbl[client_ip]
               ELSE <<0, current_time>>
    IN  Put(tbl, client_ip, <<cur[1] + 1, cur[2]>>)

\* login, on success: the entry is deleted
ClearAttempts(tbl, client_ip) ==
    IF Present(tbl, client_ip) THEN Del(tbl, client_ip) ELSE tbl

-----------------------------------------------------------------------------
(* Tokens *)

SECRET_KEY == "your-secret-key"

\* A token that expires after ACCESS_TOKEN_EXPIRE_MINUTES seconds
create_access_token_seconds(data, t, nonce) ==
    [form |-> "jwt", sub |-> data.sub, name |-> data.name,
     client_ip |-> data.client_ip,
     exp |-> t + ACCESS_TOKEN_EXPIRE_MINUTES, iat |-> t,
     type |-> "access", jti |-> <<t, nonce>>, sig |-> SECRET_KEY]

\* create_access_token: the claims of data, with exp, iat, type and jti set,
\* encoded as a JWT signed with SECRET_KEY
create_access_token(data, t, nonce) ==
    [form |-> "jwt", sub |-> data.sub, name |-> data.name,
     client_ip |-> data.client_ip,
     exp |-> t + ACCESS_TOKEN_EXPIRE_MINUTES * 60, iat |-> t,
     type |-> "access", jti |-> <<t, nonce>>, sig |-> SECRET_KEY]

\* jwt.decode(token, SECRET_KEY, algorithms=[ALGORITHM]): the signature is
\* verified first, then the expiry
Decode(token, t) ==
    IF token.form # "jwt" \/ token.sig # SECRET_KEY THEN "JWTError"
    ELSE IF token.exp < t THEN "ExpiredSignatureError"
    ELSE "payload"

\* A resolution that does not look at the expiry
get_current_user_forever(token, t, store) ==
    IF token.form # "jwt" \/ token.sig # SECRET_KEY
    THEN [code |-> 401, detail |-> "Could not validate credentials", user |-> <<>>]
    ELSE IF token.sub = <<>>
    THEN [code |-> 401, detail |-> "Invalid authentication credentials",
          user |-> <<>>]
    ELSE IF FindUser(store, token.sub) = <<>>
    THEN [code |-> 401, detail |-> "User not found", user |-> <<>>]
    ELSE [code |-> 200, detail |-> "", user |-> FindUser(store, token.sub)]

\* get_current_user: the user of the token, or the 401 it is refused with
get_current_user(token, t, store) ==
    CASE Decode(token, t) = "ExpiredSignatureError" ->
             [code |-> 401, detail |-> "Token has expired", user |-> <<>>]
      [] Decode(token, t) = "JWTError" ->
             [code |-> 401, detail |-> "Could not validate credentials",
              user |-> <<>>]
      [] OTHER ->
             IF token.sub = <<>>
             THEN [code |-> 401, detail |-> "Invalid authentication credentials",
                   user |-> <<>>]
             ELSE IF FindUser(store, token.sub) = <<>>
             THEN [code |-> 401, detail |-> "User not found", user |-> <<>>]
             ELSE [code |-> 200, detail |-> "", user |-> FindUser(store, token.sub)]

Nonces == {"n1"}

-----------------------------------------------------------------------------
(* Inputs of login *)

Slots == 1 .. MaxSlots

Alice == <<"a", "@", "x">>
PwGood == <<"A", "b", "c", "d", "e", "1">>
PwOther == <<"Z", "b", "c", "d", "e", "9">>

UserAlice ==
    [email |-> Alice, name |-> <<"A", "l">>,
     hashed_password |-> get_password_hash(PwGood), created_at |-> 0]

RegSlots == 1 .. MaxRegs

\* A slot with no register request in flight
NoRegister == [pc |-> "done", doc |-> <<>>, since |-> 0]

Usernames == {<<" ", "A", "@", "x", " ">>, <<"z", "@", "x">>}
Passwords == {PwGood, PwOther}

\* A slot with no request in flight
Idle ==
    [pc |-> "done", ip |-> "", email |-> <<>>, password |-> <<>>,
     post |-> <<>>, alone |-> TRUE]

\* startup_event has created the task: its first sweep is due at once
NoSweep == [wake |-> 0, sent |-> <<>>]

\* No ingestion request is in
NoCall == [op |-> "none"]

NoAnswer ==
    [op |-> "", ip |-> "", code |-> 0, detail |-> "", token |-> <<>>,
     user |-> <<>>, email |-> <<>>, count |-> 0, sent |-> <<>>]

Answer(ip, code, detail, token) ==
    [NoAnswer EXCEPT !.op = "login", !.ip = ip, !.code = code,
                     !.detail = detail, !.token = token]

Min(a, b) == IF a < b THEN a ELSE b

\* Other requests of the same IP in flight
Others(r, ip) == {q \in Slots \ {r} : req[q].pc # "done" /\ req[q].ip = ip}

-----------------------------------------------------------------------------
(* login, app.py:170-233 *)

\* Lines 171-180: the rate limit check, then get_user is awaited
LoginCheck(r, ip, username, password) ==
    /\ req[r].pc = "done"
    /\ LET res == check_rate_limit(login_attempts, ip, now)
       IN  /\ login_attempts' = res.tbl
           /\ req' = [q \in Slots |->
                 IF q = r
                 THEN IF res.pass
                      THEN [pc |-> "lookup", ip |-> ip,
                            email |-> Strip(Lower(username)),
                            password |-> password,
                            post |-> IF Others(r, ip) = {} THEN res.tbl[ip] ELSE <<>>,
                            alone |-> (Others(r, ip) = {})]
                      ELSE Idle
                 ELSE IF q \in Others(r, ip)
                      THEN [req[q] EXCEPT !.alone = FALSE, !.post = <<>>]
                      ELSE req[q]]
           /\ out' = IF res.pass THEN out
                     ELSE Answer(ip, 429, "Too many login attempts", <<>>)
    /\ UNCHANGED <<now, users, reg, videos>>

\* What the login of slot r ends as, once get_user has answered
Outcome(r) ==
    LET user == get_user(req[r].email)
    IN  IF user = <<>> THEN "unregistered"
        ELSE IF ~verify_password(req[r].password, user[1].hashed_password)
             THEN "wrong password"
             ELSE "success"

\* Lines 180-225: get_user answers, and the rest of login
LoginResume(r) ==
    /\ req[r].pc = "lookup"
    /\ req' = [req EXCEPT ![r] = Idle]
    /\ LET q == req[r]
           user == get_user(q.email)
       IN  CASE Outcome(r) = "unregistered" ->
                /\ out' = Answer(q.ip, 401, "Email not registered", <<>>)
                /\ UNCHANGED login_attempts
             [] Outcome(r) = "wrong password" ->
                /\ login_attempts' = RecordFailure(login_attempts, q.ip, now)
                /\ out' = Answer(q.ip, 401, "Incorrect password", <<>>)
             [] OTHER ->
                \E nonce \in Nonces :
                /\ login_attempts' = ClearAttempts(login_attempts, q.ip)
                /\ out' = Answer(q.ip, 200, "bearer",
                      <<create_access_token(
                          [sub |-> user[1].email, name |-> user[1].name,
                           client_ip |-> q.ip], now, nonce)>>)
    /\ UNCHANGED <<now, users, reg, videos>>

-----------------------------------------------------------------------------
(* The clock *)

\* The instants the login clock shows: both sides of each window's end
Instants == {t \in 0 .. MaxTime : t % RATE_LIMIT_DURATION \in {0, 1}}

TickOn(instants) ==
    \E t \in instants :
        /\ t > now
        /\ \A u \in instants : u > now => t <= u
        /\ now' = t
        /\ UNCHANGED <<login_attempts, users, req, reg, videos, out>>

Tick == TickOn(Instants)

-----------------------------------------------------------------------------
(* Observation of the login attempts of each IP since its last success:     *)
(* n attempts at most RATE_LIMIT_DURATION after the first one (at `first`), *)
(* whether some attempt was made later than that, and whether the first     *)
(* one found no entry for the IP.                                           *)

NoWin == [won |-> FALSE, passed |-> 0, log |-> <<>>]

NoStreak == [n |-> 0, first |-> 0, fresh |-> FALSE, late |-> FALSE]

Attempted(h, ip) ==
    IF h.n = 0
    THEN [h EXCEPT !.n = 1, !.first = now, !.fresh = ~Present(login_attempts, ip)]
    ELSE IF now - h.first <= RATE_LIMIT_DURATION
         THEN [h EXCEPT !.n = Min(h.n + 1, Cap)]
         ELSE [h EXCEPT !.late = TRUE]

LoginCheckSeen(r, ip, u, p) ==
    /\ LoginCheck(r, ip, u, p)
    /\ streak' = [streak EXCEPT ![ip] = Attempted(streak[ip], ip)]
    /\ UNCHANGED <<call, sweep, win, raced>>

LoginResumeSeen(r) ==
    /\ LoginResume(r)
    /\ streak' = IF Outcome(r) = "success"
                 THEN [streak EXCEPT ![req[r].ip] = NoStreak]
                 ELSE streak
    /\ UNCHANGED <<call, sweep, win, raced>>

TickSeen == Tick /\ UNCHANGED <<call, sweep, streak, win, raced>>

-----------------------------------------------------------------------------
(* The login service *)

Init ==
    /\ now = 0
    /\ login_attempts = <<>>
    /\ users = <<UserAlice>>
    /\ req = [r \in Slots |-> Idle]
    /\ out = NoAnswer
    /\ streak = [ip \in IPs |-> NoStreak]
    /\ win = [ip \in IPs |-> NoWin]
    /\ reg = [r \in RegSlots |-> NoRegister]
    /\ videos = <<>>
    /\ raced = FALSE
    /\ call = NoCall
    /\ sweep = NoSweep

Next ==
    \/ \E r \in Slots, ip \in IPs, u \in Usernames, p \in Passwords :
           LoginCheckSeen(r, ip, u, p)
    \/ \E r \in Slots : LoginResumeSeen(r)
    \/ TickSeen

Spec == Init /\ [][Next]_vars

-----------------------------------------------------------------------------
(* Observation of the attempts the limiter lets through, per IP and until  *)
(* its first success: how many since the entry was last made or reset, and *)
(* the times of those of the last RATE_LIMIT_DURATION seconds.             *)

Passed(w, ip) ==
    LET renewed == ~Present(login_attempts, ip)
                   \/ now - login_attempts[ip][2] > RATE_LIMIT_DURATION
    IN  IF w.won THEN w
        ELSE [w EXCEPT !.passed = IF renewed THEN 1 ELSE Min(w.passed + 1, Cap),
                       !.log = Append(w.log, now)]

Recent(w, t) ==
    [w EXCEPT !.log = SelectSeq(w.log, LAMBDA u : t - u < RATE_LIMIT_DURATION)]

LoginCheckCounted(r, ip, u, p) ==
    /\ LoginCheck(r, ip, u, p)
    /\ win' = IF check_rate_limit(login_attempts, ip, now).pass
              THEN [win EXCEPT ![ip] = Passed(win[ip], ip)]
              ELSE win
    /\ UNCHANGED <<call, sweep, streak, raced>>

LoginResumeCounted(r) ==
    /\ LoginResume(r)
    /\ win' = IF Outcome(r) = "success"
              THEN [win EXCEPT ![req[r].ip] = [NoWin EXCEPT !.won = TRUE]]
              ELSE win
    /\ UNCHANGED <<call, sweep, streak, raced>>

TickCounted ==
    /\ Tick
    /\ win' = [ip \in IPs |-> Recent(win[ip], now')]
    /\ UNCHANGED <<call, sweep, streak, raced>>

NextWindow ==
    \/ \E r \in Slots, ip \in IPs, u \in Usernames, p \in Passwords :
           LoginCheckCounted(r, ip, u, p)
    \/ \E r \in Slots : LoginResumeCounted(r)
    \/ TickCounted

SpecWindow == Init /\ [][NextWindow]_vars

-----------------------------------------------------------------------------
(* Claims on the rate limiter and login *)

TooMany(ip) == Answer(ip, 429, "Too many login attempts", <<>>)

\* C1: once an IP that had no entry has made 5 login attempts within 60 s,
\* none succeeding, a further attempt at most 60 s after the first one is
\* rejected with 429, and the first attempt made more than 60 s after the
\* first one passes the limiter and leaves the entry (1, now).
C1_SixthAttempt ==
    [][\A r \in Slots, ip \in IPs, u \in Usernames, p \in Passwords :
        (/\ LoginCheck(r, ip, u, p)
         /\ streak[ip].fresh
         /\ streak[ip].n >= MAX_ATTEMPTS)
        => IF now - streak[ip].first <= RATE_LIMIT_DURATION
           THEN /\ out' = TooMany(ip)
                /\ req'[r].pc = "done"
           ELSE ~streak[ip].late
                => /\ req'[r].pc = "lookup"
                   /\ login_attempts'[ip] = <<1, now>>]_vars

C1_Witness ==
    \E ip \in IPs :
        /\ streak[ip].fresh
        /\ streak[ip].n > MAX_ATTEMPTS
        /\ out = TooMany(ip)
        /\ streak[ip].late
        /\ now = streak[ip].first + RATE_LIMIT_DURATION + 1
        /\ login_attempts[ip] = <<1, now>>

\* C2: a login the limiter rejects ends in the rate limit check: get_user is
\* not awaited (so no lookup and no password verification follow), no token
\* is issued, login_attempts and users stay as they are, and the step is the
\* same whatever username and password were submitted. A request awaits
\* get_user only after the limiter has let it pass.
C2_LimiterFirst ==
    [][\A r \in Slots, ip \in IPs, u \in Usernames, p \in Passwords :
        LoginCheck(r, ip, u, p)
        => /\ req'[r].pc = "lookup"
              => /\ Present(login_attempts', ip)
                 /\ \/ ~Present(login_attempts, ip)
                    \/ login_attempts[ip][1] < MAX_ATTEMPTS
                    \/ now - login_attempts[ip][2] > RATE_LIMIT_DURATION
           /\ req'[r].pc = "done"
              => /\ out' = TooMany(ip)
                 /\ out'.token = <<>>
                 /\ login_attempts' = login_attempts
                 /\ users' = users
                 /\ \A u2 \in Usernames, p2 \in Passwords :
                        LoginCheck(r, ip, u2, p2)]_vars

C2_Witness ==
    /\ out = TooMany(out.ip)
    /\ out.ip \in IPs
    /\ Present(login_attempts, out.ip)
    /\ login_attempts[out.ip][1] >= MAX_ATTEMPTS
    /\ \A r \in Slots : req[r].pc = "done"

\* C9: a login that fails on the password adds one more attempt to the entry
\* the limiter left, keeping its window start, and a login for an
\* unregistered email adds nothing more. With no other request of the IP in
\* between, the entry after a wrong password is (previous attempts + 2, same
\* window start), or (2, time of the check) when the limiter found no entry
\* or an elapsed window; after an unregistered email it is the limiter's.
C9_DoubleCount ==
    [][/\ \A r \in Slots, ip \in IPs, u \in Usernames, p \in Passwords :
            (LoginCheck(r, ip, u, p) /\ req'[r].pc = "lookup" /\ req'[r].alone)
            => /\ req'[r].post = login_attempts'[ip]
               /\ req'[r].post =
                    IF \/ ~Present(login_attempts, ip)
                       \/ now - login_attempts[ip][2] > RATE_LIMIT_DURATION
                    THEN <<1, now>>
                    ELSE <<login_attempts[ip][1] + 1, login_attempts[ip][2]>>
       /\ \A r \in Slots :
            LET ip == req[r].ip
            IN  /\ (LoginResume(r) /\ out'.detail = "Incorrect password")
                   => /\ Present(login_attempts, ip)
                         => login_attempts'[ip] = <<login_attempts[ip][1] + 1,
                                                    login_attempts[ip][2]>>
                      /\ req[r].alone
                         => login_attempts'[ip] = <<req[r].post[1] + 1,
                                                    req[r].post[2]>>
                /\ (LoginResume(r) /\ out'.detail = "Email not registered")
                   => /\ login_attempts' = login_attempts
                      /\ req[r].alone => login_attempts[ip] = req[r].post]_vars

C9_Witness ==
    /\ out.detail = "Incorrect password"
    /\ \A r \in Slots : req[r].pc = "done"
    /\ login_attempts[out.ip] = <<4, 0>>
    /\ now = 1

\* C8, as claimed: while no login of an IP has succeeded, the limiter lets at
\* most MAX_ATTEMPTS of its attempts through in any 60 seconds.
C8_Sliding ==
    \A ip \in IPs : ~win[ip].won => Len(win[ip].log) <= MAX_ATTEMPTS

\* C8, amended: the window is fixed at its first attempt. While no login of
\* an IP has succeeded, the limiter lets at most MAX_ATTEMPTS attempts
\* through between two resets of the IP's entry, and at most 2 * MAX_ATTEMPTS
\* in any 60 seconds.
C8_FixedWindow ==
    \A ip \in IPs :
        ~win[ip].won
        => /\ win[ip].passed <= MAX_ATTEMPTS
           /\ Len(win[ip].log) <= 2 * MAX_ATTEMPTS

C8_Witness ==
    \E ip \in IPs :
        /\ ~win[ip].won
        /\ win[ip].passed = MAX_ATTEMPTS
        /\ Len(win[ip].log) > MAX_ATTEMPTS

-----------------------------------------------------------------------------
(* The token service: login issues tokens, and the endpoints that depend   *)
(* on get_current_user resolve what the client presents.                   *)

TokenLife == ACCESS_TOKEN_EXPIRE_MINUTES * 60

\* The instants the clock of the token service shows: a second and a minute
\* after each multiple of the token's life
TokenInstants == {t \in 0 .. MaxTokenTime : t % TokenLife \in {0, 1, 60}}

\* What a client that was sent token tok can present
Presentable(tok) ==
    {tok,
     [tok EXCEPT !.sig = "another key"],
     [tok EXCEPT !.form = "garbage"],
     [tok EXCEPT !.sub = <<>>]}

\* Lines 255-286, for an endpoint with Depends(get_current_user)
ResolveToken(token) ==
    /\ LET got == get_current_user(token, now, users)
       IN  out' = [NoAnswer EXCEPT !.op = "me", !.code = got.code,
                                   !.detail = got.detail, !.user = got.user]
    /\ UNCHANGED <<now, login_attempts, users, req, reg, videos>>

LoginCheckPlain(r, ip, u, p) == LoginCheck(r, ip, u, p) /\ UNCHANGED <<call, sweep, streak, win, raced>>

LoginResumePlain(r) == LoginResume(r) /\ UNCHANGED <<call, sweep, streak, win, raced>>

Resolve ==
    /\ out.token # <<>>
    /\ \E token \in Presentable(out.token[1]) : ResolveToken(token)
    /\ UNCHANGED <<call, sweep, streak, win, raced>>

TokenTick == TickOn(TokenInstants) /\ UNCHANGED <<call, sweep, streak, win, raced>>

NextToken ==
    \/ \E r \in Slots, ip \in IPs, u \in Usernames, p \in Passwords :
           LoginCheckPlain(r, ip, u, p)
    \/ \E r \in Slots : LoginResumePlain(r)
    \/ Resolve
    \/ TokenTick

SpecToken == Init /\ [][NextToken]_vars

\* C4: the token login sends carries exp = iat + 30 minutes and the email of a
\* registered user; presented as sent before iat + 30 minutes it resolves to
\* that user, and after iat + 30 minutes it is refused with "Token has
\* expired". A malformed or wrongly signed token, and an unexpired one with
\* no subject, are refused with another detail than that.
C4_Expiry ==
    [][out.token # <<>>
       => LET tok == out.token[1]
              t == tok.iat
          IN  /\ tok.exp = t + 30 * 60
              /\ ResolveToken(tok)
                 => /\ now < t + 30 * 60
                       => /\ out'.code = 200
                          /\ out'.user = FindUser(users, tok.sub)
                          /\ out'.user # <<>>
                    /\ now > t + 30 * 60
                       => /\ out'.code = 401
                          /\ out'.detail = "Token has expired"
              /\ \A bad \in {[tok EXCEPT !.sig = "another key"],
                             [tok EXCEPT !.form = "garbage"]} :
                    ResolveToken(bad)
                    => /\ out'.code = 401
                       /\ out'.detail = "Could not validate credentials"
              /\ (ResolveToken([tok EXCEPT !.sub = <<>>]) /\ now <= tok.exp)
                 => /\ out'.code = 401
                    /\ out'.detail = "Invalid authentication credentials"]_vars

C4_Witness ==
    /\ out.op = "me"
    /\ out.detail = "Token has expired"
    /\ now = 31 * 60

-----------------------------------------------------------------------------
(* register, app.py:289-341 *)

Bob == <<"b", "@", "x">>
PwNoDigit == <<"A", "b", "c", "d", "e", "f">>
PwNoUpper == <<"a", "b", "c", "d", "e", "1">>
PwShort == <<"A", "1">>

Emails == {Alice, <<"A", "@", "x">>, Bob}
Names == {<<"A", "l">>}
NewPasswords == {PwGood, PwOther, PwNoDigit, PwNoUpper, PwShort}

\* UserCreate (lines 113-116): what the framework lets through to register
ValidUserCreate(email, name, password) ==
    /\ \E i \in 2 .. Len(email) - 1 : email[i] = "@"
    /\ Len(name) >= 2 /\ Len(name) <= 50
    /\ Len(password) >= 6 /\ Len(password) <= 50

HasDigit(password) == \E i \in DOMAIN password : IsDigit(password[i])
HasUpper(password) == \E i \in DOMAIN password : IsUpper(password[i])

Reply(op, code, detail) ==
    [NoAnswer EXCEPT !.op = op, !.code = code, !.detail = detail]

\* A check that does not lower the email it looks up
Registered_exact(store, email) == FindUser(store, email) # <<>>

\* Line 293: db.users.find_one({"email": user.email.lower()})
Registered(store, email) == FindUser(store, Lower(email)) # <<>>

\* Lines 290-320: find_one answers, the password is checked, the document is
\* made and insert_one is awaited
RegisterCheck(r, email, name, password) ==
    /\ reg[r].pc = "done"
    /\ Len(users) + Cardinality({q \in RegSlots : reg[q].pc = "insert"}) < MaxUsers
    /\ IF ~ValidUserCreate(email, name, password)
       THEN /\ out' = Reply("register", 422, "validation error")
            /\ UNCHANGED reg
       ELSE IF Registered(users, email)
       THEN /\ out' = Reply("register", 400, "Email already registered")
            /\ UNCHANGED reg
       ELSE IF ~HasDigit(password)
       THEN /\ out' = Reply("register", 400,
                            "Password must contain at least one number")
            /\ UNCHANGED reg
       ELSE IF ~HasUpper(password)
       THEN /\ out' = Reply("register", 400,
                            "Password must contain at least one uppercase letter")
            /\ UNCHANGED reg
       ELSE /\ reg' = [reg EXCEPT ![r] =
                         [pc |-> "insert",
                          doc |-> <<[email |-> Lower(email), name |-> name,
                                     hashed_password |-> get_password_hash(password),
                                     created_at |-> now]>>,
                          since |-> Len(users)]]
            /\ UNCHANGED out
    /\ UNCHANGED <<now, login_attempts, users, req, videos>>

\* Lines 321-332: insert_one takes effect and register returns
RegisterInsert(r) ==
    /\ reg[r].pc = "insert"
    /\ users' = Append(users, reg[r].doc[1])
    /\ reg' = [reg EXCEPT ![r] = NoRegister]
    /\ out' = [Reply("register", 200, "User created successfully")
                 EXCEPT !.email = reg[r].doc[1].email]
    /\ UNCHANGED <<now, login_attempts, req, videos>>

RegisterCheckSeen(r, email, name, password) ==
    /\ RegisterCheck(r, email, name, password)
    /\ raced' = (raced \/ \E q \in RegSlots \ {r} : reg[q].pc = "insert")
    /\ UNCHANGED <<call, sweep, streak, win>>

RegisterInsertSeen(r) == RegisterInsert(r) /\ UNCHANGED <<call, sweep, streak, win, raced>>

InitRegister ==
    /\ now = 0
    /\ login_attempts = <<>>
    /\ users = <<>>
    /\ req = [r \in Slots |-> Idle]
    /\ out = NoAnswer
    /\ streak = [ip \in IPs |-> NoStreak]
    /\ win = [ip \in IPs |-> NoWin]
    /\ reg = [r \in RegSlots |-> NoRegister]
    /\ videos = <<>>
    /\ raced = FALSE
    /\ call = NoCall
    /\ sweep = NoSweep

NextRegister ==
    \/ \E r \in RegSlots, e \in Emails, n \in Names, p \in NewPasswords :
           RegisterCheckSeen(r, e, n, p)
    \/ \E r \in RegSlots : RegisterInsertSeen(r)

SpecRegister == InitRegister /\ [][NextRegister]_vars

Holders(store, email) == {i \in DOMAIN store : store[i].email = email}

\* C3: while register requests are made one after the other, a request with a
\* digit and an uppercase letter in its password succeeds if and only if no
\* user has its lowercased email: the first one stores one document under the
\* lowercased email and answers with it, a later one in any letter case is
\* refused with 400 "Email already registered" and db.users stays as it is;
\* so no two documents have the same email.
C3_OncePerEmail ==
    [][~raced'
       => /\ \A i, j \in DOMAIN users' :
                users'[i].email = users'[j].email => i = j
          /\ \A r \in RegSlots, e \in Emails, n \in Names, p \in NewPasswords :
                (/\ RegisterCheck(r, e, n, p)
                 /\ ValidUserCreate(e, n, p)
                 /\ \E i \in DOMAIN p : p[i] \in DigitChars
                 /\ \E i \in DOMAIN p : p[i] \in UpperChars)
                => IF Holders(users, Lower(e)) # {}
                   THEN /\ out' = Reply("register", 400, "Email already registered")
                        /\ users' = users
                        /\ reg'[r].pc = "done"
                   ELSE /\ reg'[r].pc = "insert"
                        /\ reg'[r].doc[1].email = Lower(e)
          /\ \A r \in RegSlots :
                RegisterInsert(r)
                => /\ Holders(users, reg[r].doc[1].email) = {}
                   /\ users' = Append(users, reg[r].doc[1])
                   /\ out'.code = 200
                   /\ out'.email = reg[r].doc[1].email]_vars

C3_Witness ==
    /\ ~raced
    /\ Len(users) = 2
    /\ users[1].email = Alice
    /\ out = Reply("register", 400, "Email already registered")

\* C10: a register request whose existence check runs when a document with its
\* lowercased email is stored fails with 400 "Email already registered"; one
\* whose check found none inserts its document and succeeds whatever was
\* inserted since, so that two requests for one email whose checks both run
\* before either insert leave two documents with that email; and documents
\* with the same email come about in no other way: the later one is inserted
\* by a request that was checked before the earlier one was inserted.
C10_CheckThenInsert ==
    [][/\ \A r \in RegSlots, e \in Emails, n \in Names, p \in NewPasswords :
            (/\ RegisterCheck(r, e, n, p)
             /\ ValidUserCreate(e, n, p)
             /\ Holders(users, Lower(e)) # {})
            => /\ out' = Reply("register", 400, "Email already registered")
               /\ users' = users
               /\ reg'[r].pc = "done"
       /\ \A r \in RegSlots :
            RegisterInsert(r)
            => /\ users' = Append(users, reg[r].doc[1])
               /\ out'.code = 200
               /\ \A i \in Holders(users, reg[r].doc[1].email) : i > reg[r].since
       /\ (\E i, j \in DOMAIN users' : i # j /\ users'[i].email = users'[j].email)
          => raced']_vars

C10_Witness ==
    /\ Len(users) = 2
    /\ users[1].email = users[2].email
    /\ out.code = 200
    /\ \A r \in RegSlots : reg[r].pc = "done"

-----------------------------------------------------------------------------
(* The genre classifier adapter, app.py:370-415 *)

genre_mapping ==
    [label \in {"Music and Entertainment", "Gaming and Esports",
                "Education and Learning", "Technology and Programming",
                "Lifestyle and Vlogs", "Sports and Fitness",
                "News and Politics", "Arts and Creativity",
                "Science and Nature", "Food and Cooking"} |->
        CASE label = "Music and Entertainment" -> "music"
          [] label = "Gaming and Esports" -> "gaming"
          [] label = "Education and Learning" -> "education"
          [] label = "Technology and Programming" -> "technology"
          [] label = "Lifestyle and Vlogs" -> "lifestyle"
          [] label = "Sports and Fitness" -> "sports"
          [] label = "News and Politics" -> "news"
          [] label = "Arts and Creativity" -> "arts"
          [] label = "Science and Nature" -> "science"
          [] label = "Food and Cooking" -> "food"]

\* What the call of the zero-shot classifier can come to: an exception, or a
\* result with its labels, best first
Gaming ==
    [raises |-> FALSE, labels |-> <<"Gaming and Esports", "Music and Entertainment">>]

ClassifierResults ==
    {[raises |-> TRUE, labels |-> <<>>],
     [raises |-> FALSE, labels |-> <<>>],
     [raises |-> FALSE, labels |-> <<"Comedy">>],
     Gaming}

\* An adapter that passes on a label it has no genre for
classify_video_genre_raw(result) ==
    IF result.raises \/ result.labels = <<>> THEN "other"
    ELSE IF result.labels[1] \in DOMAIN genre_mapping
         THEN genre_mapping[result.labels[1]]
         ELSE result.labels[1]

\* classify_video_genre, given what the classifier came to
classify_video_genre(result) ==
    IF result.raises THEN "other"
    ELSE IF result.labels = <<>> THEN "other"
    ELSE IF result.labels[1] \in DOMAIN genre_mapping
         THEN genre_mapping[result.labels[1]]
         ELSE "other"

-----------------------------------------------------------------------------
(* The video endpoints, app.py:417-592. A URL is the sequence of its parts. *)

UserBob ==
    [email |-> Bob, name |-> <<"B", "o">>,
     hashed_password |-> get_password_hash(PwOther), created_at |-> 0]

Callers == {UserAlice, UserBob}

ListedURL ==
    <<"https://www.youtube.com/watch?v=abc", "&", "list=", "PL2", "&", "index=1">>

PlaylistURLs == {ListedURL, <<"https://www.youtube.com/watch?v=abc">>}

\* Line 424: request.playlist_url.split("list=")[-1].split("&")[0]
PlaylistId(url) ==
    LET k == CHOOSE i \in DOMAIN url :
                 url[i] = "list=" /\ \A j \in DOMAIN url : url[j] = "list=" => j <= i
        rest == SubSeq(url, k + 1, Len(url))
        stops == {i \in DOMAIN rest : rest[i] = "&"}
    IN  IF stops = {} THEN rest
        ELSE SubSeq(rest, 1, (CHOOSE i \in stops : \A j \in stops : i <= j) - 1)

Statuses == {200, 403, 404}

Item1 ==
    [ok |-> TRUE, videoId |-> "v1", title |-> <<"T", "1">>,
     description |-> <<"D", "1">>,
     thumbnails |-> [k \in {"high", "default"} |-> IF k = "high" THEN "h1" ELSE "d1"]]

Item2 ==
    [ok |-> TRUE, videoId |-> "v2", title |-> <<"T", "2">>, description |-> <<>>,
     thumbnails |-> [k \in {"maxres"} |-> "m2"]]

\* An item without the keys the loop reads
BadItem ==
    [ok |-> FALSE, videoId |-> "", title |-> <<>>, description |-> <<>>,
     thumbnails |-> [k \in {} |-> ""]]

\* The pages the upstream can answer with
ItemLists ==
    UNION {[1 .. n -> {Item1, Item2}] : n \in 0 .. MaxItems}
        \cup {<<Item1, BadItem>>}

\* Lines 459-465
Thumbnail(thumbnails) ==
    IF "maxres" \in DOMAIN thumbnails THEN thumbnails["maxres"]
    ELSE IF "high" \in DOMAIN thumbnails THEN thumbnails["high"]
    ELSE IF "medium" \in DOMAIN thumbnails THEN thumbnails["medium"]
    ELSE IF "default" \in DOMAIN thumbnails THEN thumbnails["default"]
    ELSE ""

\* A record that is saved as watched
YoutubeVideo_watched(item, video_genre, current_user, current_time) ==
    [id |-> item.videoId, title |-> item.title,
     thumbnail |-> Thumbnail(item.thumbnails), platform |-> "youtube",
     genre |-> video_genre, savedAt |-> [form |-> "datetime", t |-> current_time],
     watchStatus |-> "watched", userId |-> current_user.email,
     description |-> item.description, originalUrl |-> ""]

\* Lines 467-477
YoutubeVideo(item, video_genre, current_user, current_time) ==
    [id |-> item.videoId, title |-> item.title,
     thumbnail |-> Thumbnail(item.thumbnails), platform |-> "youtube",
     genre |-> video_genre, savedAt |-> [form |-> "datetime", t |-> current_time],
     watchStatus |-> "unwatched", userId |-> current_user.email,
     description |-> item.description, originalUrl |-> ""]

\* add_youtube_playlist, lines 417-496
AddYoutubePlaylist(current_user, url, status, items, results) ==
    /\ Len(videos) + Len(items) <= MaxVideos
    /\ IF ~\E i \in DOMAIN url : url[i] = "list="
       THEN /\ out' = Reply("youtube", 400, "Invalid YouTube playlist URL")
            /\ UNCHANGED videos
       ELSE LET sent == <<PlaylistId(url)>>
                Said(code, detail) == [Reply("youtube", code, detail) EXCEPT !.sent = sent]
            IN  IF status = 403
                THEN /\ out' = Said(403, "YouTube API key is invalid or quota exceeded")
                     /\ UNCHANGED videos
                ELSE IF status # 200
                THEN /\ out' = Said(400, "Failed to fetch playlist. Please check the URL and try again.")
                     /\ UNCHANGED videos
                ELSE IF items = <<>>
                THEN /\ out' = Said(404, "No videos found in playlist")
                     /\ UNCHANGED videos
                ELSE IF \E i \in DOMAIN items : ~items[i].ok
                THEN /\ out' = Said(500, "An error occurred")
                     /\ UNCHANGED videos
                ELSE /\ videos' = videos \o
                          [i \in DOMAIN items |->
                              YoutubeVideo(items[i], classify_video_genre(results[i]),
                                           current_user, now)]
                     /\ out' = [Said(200, "Successfully added videos from playlist")
                                  EXCEPT !.count = Len(items)]
    /\ UNCHANGED <<now, login_attempts, users, req, reg>>

ReelURL == <<"https://", "instagram.com", "/reel/", "ABC123">>

InstagramURLs ==
    {ReelURL,
     <<"http://", "www.instagram.com", "/p/", "ABC123">>,
     <<"https://", "instagram.com", "/stories/", "ABC123">>}

\* Line 502: https?://(?:www\.)?instagram\.com/(?:reel|p)/[a-zA-Z0-9_-]+/?.*
InstagramMatch(url) ==
    /\ Len(url) >= 4
    /\ url[1] \in {"http://", "https://"}
    /\ url[2] \in {"instagram.com", "www.instagram.com"}
    /\ url[3] \in {"/reel/", "/p/"}
    /\ url[4] \in {"ABC123", "x_y-1"}

Caption == <<"c", "a", "t">>

Reel == [ok |-> TRUE, id |-> "ig1", media_type |-> "REELS", caption |-> Caption]

\* The statuses the media lookup can answer with
MediaStatuses == {200, 404}

\* What the media lookup can answer
MediaAnswers ==
    {Reel,
     [ok |-> TRUE, id |-> "ig1", media_type |-> "IMAGE", caption |-> Caption],
     [ok |-> FALSE, id |-> "", media_type |-> "VIDEO", caption |-> Caption]}

\* Lines 545-556
InstagramVideo(data, video_genre, current_user, current_time) ==
    [id |-> data.id,
     title |-> IF Len(data.caption) > 100
               THEN SubSeq(data.caption, 1, 100) \o <<".", ".", ".">>
               ELSE data.caption,
     thumbnail |-> "", platform |-> "instagram", genre |-> video_genre,
     savedAt |-> [form |-> "isoformat", t |-> current_time],
     watchStatus |-> "unwatched", userId |-> current_user.email,
     description |-> data.caption, originalUrl |-> "permalink"]

\* add_instagram_video, lines 498-577
AddInstagramVideo(current_user, url, configured, status, data, result) ==
    /\ Len(videos) < MaxVideos
    /\ IF ~InstagramMatch(url)
       THEN /\ out' = Reply("instagram", 400, "Invalid Instagram URL")
            /\ UNCHANGED videos
       ELSE IF ~configured
       THEN /\ out' = Reply("instagram", 501, "Instagram integration requires API setup. Please configure INSTAGRAM_ACCESS_TOKEN in .env")
            /\ UNCHANGED videos
       ELSE LET Said(code, detail) ==
                    [Reply("instagram", code, detail) EXCEPT !.sent = <<url[4]>>]
            IN  IF status # 200
                THEN /\ out' = Said(400, "Failed to fetch Instagram video. Please check the URL and try again.")
                     /\ UNCHANGED videos
                ELSE IF data.media_type \notin {"VIDEO", "REELS"}
                THEN /\ out' = Said(400, "URL must point to a video or reel")
                     /\ UNCHANGED videos
                ELSE IF ~data.ok
                THEN /\ out' = Said(500, "Failed to add Instagram video")
                     /\ UNCHANGED videos
                ELSE /\ videos' = Append(videos,
                          InstagramVideo(data, classify_video_genre(result),
                                         current_user, now))
                     /\ out' = [Said(200, "Successfully added Instagram video")
                                  EXCEPT !.count = 1]
    /\ UNCHANGED <<now, login_attempts, users, req, reg>>

WatchStatuses == {"watched", "unwatched", "paused"}
VideoIds == {"v1", "v2", "ig1"}

\* A filter on the video id alone
Matching_any_owner(store, video_id, email) ==
    {i \in DOMAIN store : store[i].id = video_id}

\* Line 585: the filter {"id": video_id, "userId": current_user.email}
Matching(store, video_id, email) ==
    {i \in DOMAIN store : store[i].id = video_id /\ store[i].userId = email}

\* update_watch_status, lines 579-592: update_one sets the field of the first
\* document that matches, and modified_count counts the documents it changed
UpdateWatchStatus(current_user, video_id, status) ==
    /\ IF status \notin {"watched", "unwatched"}
       THEN /\ out' = Reply("watch-status", 400, "Invalid watch status")
            /\ UNCHANGED videos
       ELSE LET hits == Matching(videos, video_id, current_user.email)
                first == CHOOSE i \in hits : \A j \in hits : i <= j
                modified_count ==
                    IF hits # {} /\ videos[first].watchStatus # status THEN 1 ELSE 0
            IN  /\ videos' = IF hits = {} THEN videos
                             ELSE [videos EXCEPT ![first].watchStatus = status]
                /\ out' = IF modified_count = 0
                          THEN Reply("watch-status", 404, "Video not found")
                          ELSE Reply("watch-status", 200, "Watch status updated")
    /\ UNCHANGED <<now, login_attempts, users, req, reg>>

\* add_youtube_playlist is called: the request waits for get_current_user
YoutubeCalled ==
    /\ call.op = "none"
    /\ \E c \in Callers, url \in PlaylistURLs, status \in Statuses, items \in ItemLists :
          \E results \in [DOMAIN items -> ClassifierResults] :
              /\ Len(videos) + Len(items) <= MaxVideos
              /\ call' = [op |-> "youtube", current_user |-> c, url |-> url,
                          status |-> status, items |-> items, results |-> results]
    /\ out' = NoAnswer
    /\ UNCHANGED <<now, login_attempts, users, req, reg, videos, sweep, streak, win,
                 raced>>

\* The body of add_youtube_playlist runs
YoutubeRun ==
    /\ call.op = "youtube"
    /\ AddYoutubePlaylist(call.current_user, call.url, call.status, call.items,
                          call.results)
    /\ call' = NoCall
    /\ UNCHANGED <<sweep, streak, win, raced>>

\* add_instagram_video is called: the request waits for get_current_user
InstagramCalled ==
    /\ call.op = "none"
    /\ Len(videos) < MaxVideos
    /\ \E c \in Callers, url \in InstagramURLs, configured \in BOOLEAN,
          status \in MediaStatuses, data \in MediaAnswers, result \in ClassifierResults :
              call' = [op |-> "instagram", current_user |-> c, url |-> url,
                       configured |-> configured, status |-> status, data |-> data,
                       result |-> result]
    /\ out' = NoAnswer
    /\ UNCHANGED <<now, login_attempts, users, req, reg, videos, sweep, streak, win,
                 raced>>

\* The body of add_instagram_video runs
InstagramRun ==
    /\ call.op = "instagram"
    /\ AddInstagramVideo(call.current_user, call.url, call.configured, call.status,
                         call.data, call.result)
    /\ call' = NoCall
    /\ UNCHANGED <<sweep, streak, win, raced>>

\* Ingestions whose upstream and classifier are in order
Save ==
    /\ \E c \in Callers, items \in ItemLists :
          AddYoutubePlaylist(c, ListedURL, 200, items, [k \in DOMAIN items |-> Gaming])
    /\ UNCHANGED <<call, sweep, streak, win, raced>>

SaveInstagram ==
    /\ \E c \in Callers : AddInstagramVideo(c, ReelURL, TRUE, 200, Reel, Gaming)
    /\ UNCHANGED <<call, sweep, streak, win, raced>>

Watch ==
    /\ \E c \in Callers, id \in VideoIds, status \in WatchStatuses :
          UpdateWatchStatus(c, id, status)
    /\ UNCHANGED <<call, sweep, streak, win, raced>>

InitVideo ==
    /\ now = 0
    /\ login_attempts = <<>>
    /\ users = <<UserAlice, UserBob>>
    /\ req = [r \in Slots |-> Idle]
    /\ out = NoAnswer
    /\ streak = [ip \in IPs |-> NoStreak]
    /\ win = [ip \in IPs |-> NoWin]
    /\ reg = [r \in RegSlots |-> NoRegister]
    /\ videos = <<>>
    /\ raced = FALSE
    /\ call = NoCall
    /\ sweep = NoSweep

NextVideo == Save \/ SaveInstagram \/ Watch

SpecVideo == InitVideo /\ [][NextVideo]_vars

NextIngest == YoutubeCalled \/ YoutubeRun \/ InstagramCalled \/ InstagramRun

SpecIngest == InitVideo /\ [][NextIngest]_vars

\* C5: update_watch_status with a watched or unwatched status for a video id
\* that only other users' videos have answers 404 "Video not found", and no
\* call changes a video whose userId is not the caller's email.
C5_OwnerScoped ==
    [][\A c \in Callers, id \in VideoIds, status \in {"watched", "unwatched"} :
        UpdateWatchStatus(c, id, status)
        => /\ Len(videos') = Len(videos)
           /\ \A i \in DOMAIN videos :
                 videos[i].userId # c.email => videos'[i] = videos[i]
           /\ (/\ \E i \in DOMAIN videos : videos[i].id = id
               /\ \A i \in DOMAIN videos :
                     videos[i].id = id => videos[i].userId # c.email)
              => out' = Reply("watch-status", 404, "Video not found")]_vars

C5_Witness ==
    /\ out = Reply("watch-status", 404, "Video not found")
    /\ Len(videos) = 2
    /\ videos[1].id = videos[2].id
    /\ videos[1].userId # videos[2].userId
    /\ videos[1].watchStatus = "unwatched"
    /\ videos[2].watchStatus = "watched"

Refused(code, detail) ==
    /\ out'.code = code
    /\ out'.detail = detail
    /\ videos' = videos

\* C6: add_youtube_playlist answers 400 "Invalid YouTube playlist URL" for a
\* URL without list=, before any call upstream; 403 when the upstream status
\* is 403; 400 "Failed to fetch playlist. ..." for any other status than
\* 200; 404 when there are no items; and none of these inserts a video. When it
\* succeeds it has inserted one record per item, in order, each unwatched and
\* with the caller's email as userId.
C6_IngestionErrors ==
    [][YoutubeRun
       => LET listed == \E i \in DOMAIN call.url : call.url[i] = "list="
              status == call.status
              items == call.items
          IN  /\ ~listed
                 => /\ Refused(400, "Invalid YouTube playlist URL")
                    /\ out'.sent = <<>>
              /\ (listed /\ status = 403)
                 => Refused(403, "YouTube API key is invalid or quota exceeded")
              /\ (listed /\ status \notin {200, 403})
                 => Refused(400,
                       "Failed to fetch playlist. Please check the URL and try again.")
              /\ (listed /\ status = 200 /\ items = <<>>)
                 => Refused(404, "No videos found in playlist")
              /\ out'.code # 200 => videos' = videos
              /\ out'.code = 200
                 => /\ Len(videos') = Len(videos) + Len(items)
                    /\ out'.count = Len(items)
                    /\ SubSeq(videos', 1, Len(videos)) = videos
                    /\ \A k \in DOMAIN items :
                         LET v == videos'[Len(videos) + k]
                         IN  /\ v.id = items[k].videoId
                             /\ v.watchStatus = "unwatched"
                             /\ v.userId = call.current_user.email]_vars

C6_Witness ==
    /\ out.op = "youtube"
    /\ out.code = 200
    /\ out.count = 2
    /\ Len(videos) = 2
    /\ videos[1].id # videos[2].id
    /\ \A i \in DOMAIN videos : videos[i].watchStatus = "unwatched"

GenreSlugs ==
    {"music", "gaming", "education", "technology", "lifestyle", "sports",
     "news", "arts", "science", "food"}

Failing(result) ==
    \/ result.raises
    \/ result.labels = <<>>
    \/ result.labels[1] \notin DOMAIN genre_mapping

\* C7: the adapter answers "other" when the classifier raises, returns no
\* label or returns a label outside the mapping, so that an ingestion whose
\* upstream answer is good stores its records whatever the classifier did,
\* those of a failed classification with genre "other"; and every stored
\* video has one of the 10 genres or "other".
C7_GenreFallback ==
    [][/\ \A i \in DOMAIN videos' : videos'[i].genre \in GenreSlugs \cup {"other"}
       /\ (/\ YoutubeRun
           /\ \E i \in DOMAIN call.url : call.url[i] = "list="
           /\ call.status = 200
           /\ call.items # <<>>
           /\ \A k \in DOMAIN call.items : call.items[k].ok)
          => /\ out'.code = 200
             /\ Len(videos') = Len(videos) + Len(call.items)
             /\ \A k \in DOMAIN call.items :
                   Failing(call.results[k])
                   => videos'[Len(videos) + k].genre = "other"
       /\ (/\ InstagramRun
           /\ out'.code = 200
           /\ Failing(call.result))
          => /\ Len(videos') = Len(videos) + 1
             /\ videos'[Len(videos')].genre = "other"]_vars

C7_Witness ==
    /\ out.code = 200
    /\ Len(videos) = 2
    /\ videos[1].platform = "youtube"
    /\ videos[1].genre = "other"
    /\ videos[2].genre = "gaming"

-----------------------------------------------------------------------------
(* The sweeper of unwatched videos, app.py:598-613. startup_event creates  *)
(* the task; each round of its loop reads db.videos, notifies, and sleeps. *)

DAY == 24 * 60 * 60

\* The instants the sweeper's clock shows: each midnight and the second after
SweepInstants == {t \in 0 .. MaxDays * DAY : t % DAY \in {0, 1}}

\* Line 603, {"savedAt": {"$lte": two_weeks_ago}} with a datetime operand:
\* MongoDB compares a field with an operand of its own BSON type only, so a
\* savedAt stored as a string matches no date bound
MongoLte(savedAt, bound) == savedAt.form = "datetime" /\ savedAt.t <= bound

\* Lines 600-604: the documents the find returns, in the order of the store
UnwatchedVideos(store, current_time) ==
    LET two_weeks_ago == current_time - STALE_DAYS * DAY
    IN  SelectSeq(store, LAMBDA video :
            /\ video.watchStatus = "unwatched"
            /\ MongoLte(video.savedAt, two_weeks_ago))

\* Lines 594-596 and 606-607: one send_notification per document
Notifications(found) ==
    [i \in DOMAIN found |->
        [user_email |-> found[i].userId, video_title |-> found[i].title]]

\* One round of check_unwatched_videos, lines 599-609
CheckUnwatchedVideos ==
    /\ now = sweep.wake
    /\ sweep' = [wake |-> now + SWEEP_SLEEP,
                 sent |-> Notifications(UnwatchedVideos(videos, now))]
    /\ UNCHANGED <<now, login_attempts, users, req, reg, videos, out>>

\* The clock moves on; the sleep of the sweeper ends when it is due
SweepTick ==
    /\ now < sweep.wake
    /\ TickOn(SweepInstants)
    /\ UNCHANGED <<call, sweep, streak, win, raced>>

Sweep == CheckUnwatchedVideos /\ UNCHANGED <<call, streak, win, raced>>

\* Videos are saved during the first seconds, by either user
SweepSave ==
    /\ now <= MaxSaveTime
    /\ \E c \in Callers : AddYoutubePlaylist(c, ListedURL, 200, <<Item1>>, <<Gaming>>)
    /\ UNCHANGED <<call, sweep, streak, win, raced>>

SweepSaveInstagram ==
    /\ now <= MaxSaveTime
    /\ \E c \in Callers : AddInstagramVideo(c, ReelURL, TRUE, 200, Reel, Gaming)
    /\ UNCHANGED <<call, sweep, streak, win, raced>>

\* A video is marked watched, and stays so
SweepWatch ==
    /\ \E c \in Callers, id \in VideoIds : UpdateWatchStatus(c, id, "watched")
    /\ UNCHANGED <<call, sweep, streak, win, raced>>

NextSweep == Sweep \/ SweepTick \/ SweepSave \/ SweepSaveInstagram \/ SweepWatch

SpecSweep == InitVideo /\ [][NextSweep]_vars

\* The videos a sweep at current_time is to notify: the unwatched ones saved
\* at or before current_time - 14 days, of either platform
Stale(store, current_time) ==
    SelectSeq(store, LAMBDA video :
        /\ video.watchStatus = "unwatched"
        /\ video.savedAt.t <= current_time - STALE_DAYS * DAY)

\* C11: the sweeper runs at startup and then every 24 hours; each run sends
\* one notification for each stored video, of YouTube or of Instagram, that is
\* unwatched and was saved at or before the time of the run minus 14 days,
\* and none for another video; so once 14 days and 24 hours have passed since
\* a video was saved and the run due then is done, a video that stayed
\* unwatched is among those the last run notified.
C11_SweepNotifies ==
    [][/\ Sweep => /\ sweep'.sent = Notifications(Stale(videos, now))
                   /\ sweep'.wake = now + DAY
                   /\ now % DAY = 0
       /\ \A i \in DOMAIN videos' :
            (/\ videos'[i].watchStatus = "unwatched"
             /\ now' >= videos'[i].savedAt.t + STALE_DAYS * DAY + DAY
             /\ sweep'.wake > now')
            => \E k \in DOMAIN sweep'.sent :
                  sweep'.sent[k] = [user_email |-> videos'[i].userId,
                                    video_title |-> videos'[i].title]]_vars

\* A run of the sweeper that had an unwatched Instagram video of 14 days or
\* more in the store
C11_Witness ==
    /\ now = STALE_DAYS * DAY
    /\ sweep.wake > now
    /\ \E i \in DOMAIN videos :
          /\ videos[i].platform = "instagram"
          /\ videos[i].watchStatus = "unwatched"
          /\ videos[i].savedAt.t = 0

-----------------------------------------------------------------------------
(* Claim on the result of update_watch_status *)

\* C12: update_watch_status with status watched or unwatched answers 404
\* "Video not found" only when the caller owns no video with that id; when
\* the caller owns one it succeeds and the video has that status afterwards,
\* also when it had it before; another status answers 400 "Invalid watch
\* status" and changes nothing.
C12_Idempotent ==
    [][\A c \in Callers, id \in VideoIds, status \in WatchStatuses :
        UpdateWatchStatus(c, id, status)
        => IF status \notin {"watched", "unwatched"}
           THEN /\ out' = Reply("watch-status", 400, "Invalid watch status")
                /\ videos' = videos
           ELSE LET owned == {i \in DOMAIN videos :
                                videos[i].id = id /\ videos[i].userId = c.email}
                IN  IF owned = {}
                    THEN /\ out' = Reply("watch-status", 404, "Video not found")
                         /\ videos' = videos
                    ELSE /\ out' = Reply("watch-status", 200, "Watch status updated")
                         /\ \E i \in owned : videos'[i].watchStatus = status]_vars

====
